---------------------------- MODULE Spec2Model ----------------------------
(***************************************************************************)
(* A model of the KawPow proof-of-work engine of this repository:          *)
(*   src/src/crypto/kawpow-slow-hash.c   the hash, the seed heights, the   *)
(*                                       main seed hash, the miner thread  *)
(*   src/external/kawpow/kawpow.cpp      the cache / dataset library       *)
(*                                                                         *)
(* A uint32_t is the pair <<hi, lo>> of its two 16-bit halves and a        *)
(* uint64_t is the tuple of its four 16-bit limbs, most significant first: *)
(* every C operation is computed on the halves with its wraparound, so     *)
(* that no intermediate value leaves the range of 32-bit integers.         *)
(***************************************************************************)
EXTENDS Integers, Sequences, FiniteSets, TLC

(***************************************************************************)
(* 32-bit unsigned arithmetic                                              *)
(***************************************************************************)
B16 == 256 * 256

W32(hi, lo) == <<hi, lo>>

ZERO32 == W32(0, 0)

\* the uint32_t of a small non-negative C int (n < 2^31)
U32(n) == W32(n \div B16, n % B16)

IsU32(w) == /\ w \in Seq(0..(B16 - 1))
            /\ Len(w) = 2

Add32(a, b) ==
    LET lo == a[2] + b[2]
    IN  W32((a[1] + b[1] + (lo \div B16)) % B16, lo % B16)

\* the full 32-bit product of two 16-bit values, as <<hi, lo>>
Mul16(x, y) ==
    LET p0 == x * (y % 256)
        p1 == x * (y \div 256)
        t  == p0 + (p1 % 256) * 256
    IN  W32((t \div B16) + (p1 \div 256), t % B16)

\* a * b as uint32_t (the low 32 bits of the product)
Mul32(a, b) ==
    LET ll == Mul16(a[2], b[2])
        lh == Mul16(a[2], b[1])
        hl == Mul16(a[1], b[2])
    IN  W32((ll[1] + lh[2] + hl[2]) % B16, ll[2])

\* ((uint64_t)a * b) >> 32
MulHi32(a, b) ==
    LET ll == Mul16(a[2], b[2])
        lh == Mul16(a[2], b[1])
        hl == Mul16(a[1], b[2])
        hh == Mul16(a[1], b[1])
        t1 == ll[1] + lh[2] + hl[2]
        t2 == (t1 \div B16) + lh[1] + hl[1] + hh[2]
    IN  W32(((t2 \div B16) + hh[1]) % B16, t2 % B16)

Lt32(a, b) == \/ a[1] < b[1]
              \/ a[1] = b[1] /\ a[2] < b[2]

RECURSIVE BitOp(_, _, _, _)
\* a bitwise operator on n-bit values, f its truth table on <<bit, bit>>
BitOp(f, x, y, n) ==
    IF n = 0 THEN 0
    ELSE f[x % 2][y % 2] + 2 * BitOp(f, x \div 2, y \div 2, n - 1)

XorBit == [a \in 0..1 |-> [b \in 0..1 |-> (a + b) % 2]]
AndBit == [a \in 0..1 |-> [b \in 0..1 |-> a * b]]
OrBit  == [a \in 0..1 |-> [b \in 0..1 |-> IF a + b > 0 THEN 1 ELSE 0]]

XorNib == [a \in 0..15 |-> [b \in 0..15 |-> BitOp(XorBit, a, b, 4)]]
AndNib == [a \in 0..15 |-> [b \in 0..15 |-> BitOp(AndBit, a, b, 4)]]
OrNib  == [a \in 0..15 |-> [b \in 0..15 |-> BitOp(OrBit, a, b, 4)]]

Nib16(T, x, y) ==
    T[x \div 4096][y \div 4096] * 4096
    + T[(x \div 256) % 16][(y \div 256) % 16] * 256
    + T[(x \div 16) % 16][(y \div 16) % 16] * 16
    + T[x % 16][y % 16]

Xor32(a, b) == W32(Nib16(XorNib, a[1], b[1]), Nib16(XorNib, a[2], b[2]))
And32(a, b) == W32(Nib16(AndNib, a[1], b[1]), Nib16(AndNib, a[2], b[2]))
Or32(a, b)  == W32(Nib16(OrNib, a[1], b[1]), Nib16(OrNib, a[2], b[2]))

\* x << n as uint32_t, 0 <= n <= 31
Shl32(x, n) ==
    IF n >= 16
    THEN W32((x[2] * 2^(n - 16)) % B16, 0)
    ELSE LET lo == x[2] * 2^n
         IN  W32((x[1] * 2^n + (lo \div B16)) % B16, lo % B16)

\* x >> n as uint32_t, 0 <= n <= 31
Shr32(x, n) ==
    IF n >= 16
    THEN W32(0, x[1] \div 2^(n - 16))
    ELSE W32(x[1] \div 2^n, (x[2] \div 2^n) + (x[1] % 2^n) * 2^(16 - n))

\* A shift of a uint32_t by 32 is undefined in C: the builds either mask the
\* count (the value comes back unchanged) or shift every bit out (zero).
ShiftByWidth(x) == {x, ZERO32}

RECURSIVE PopCount(_)
\* the number of 1 bits of n
PopCount(n) == IF n = 0 THEN 0 ELSE (n % 2) + PopCount(n \div 2)

RECURSIVE BitLen(_)
\* the position of the highest 1 bit of n, counted from 1 (0 for n = 0)
BitLen(n) == IF n = 0 THEN 0 ELSE 1 + BitLen(n \div 2)

PopNib == [a \in 0..15 |-> PopCount(a)]
LenNib == [a \in 0..15 |-> BitLen(a)]

PopCount16(x) ==
    PopNib[x \div 4096] + PopNib[(x \div 256) % 16] + PopNib[(x \div 16) % 16] + PopNib[x % 16]

BitLen16(x) ==
    IF x >= 4096 THEN 12 + LenNib[x \div 4096]
    ELSE IF x >= 256 THEN 8 + LenNib[x \div 256]
    ELSE IF x >= 16 THEN 4 + LenNib[x \div 16]
    ELSE LenNib[x]

\* __builtin_popcount
popcount32(a) == PopCount16(a[1]) + PopCount16(a[2])

\* __builtin_clz, a /= 0
clz32(a) == IF a[1] > 0 THEN 16 - BitLen16(a[1]) ELSE 32 - BitLen16(a[2])

(***************************************************************************)
(* kawpow-slow-hash.c: constants                                           *)
(***************************************************************************)
KAWPOW_PERIOD == 3
KAWPOW_LANES == 16
KAWPOW_REGS == 32
KAWPOW_DAG_LOADS == 4
KAWPOW_CNT_DAG == 64
KAWPOW_CNT_CACHE == 11
KAWPOW_CNT_MATH == 18
KAWPOW_EPOCH_LENGTH == 7500
HASH_SIZE == 32

FNV_PRIME == W32(256, 403)            \* 0x01000193
FNV_OFFSET_BASIS == W32(33052, 40389) \* 0x811c9dc5

fnv1a(h, d) == Mul32(Xor32(h, d), FNV_PRIME)

\* The rotates are (x << n) | (x >> (32 - n)); with n = 0 the right operand
\* is a shift by the width, whose every outcome leaves the OR equal to x.
rotl32(x, n) ==
    IF n = 0
    THEN CHOOSE r \in {Or32(Shl32(x, 0), s) : s \in ShiftByWidth(x)} : TRUE
    ELSE Or32(Shl32(x, n), Shr32(x, 32 - n))

rotr32(x, n) ==
    IF n = 0
    THEN CHOOSE r \in {Or32(Shr32(x, 0), s) : s \in ShiftByWidth(x)} : TRUE
    ELSE Or32(Shr32(x, n), Shl32(x, 32 - n))

\* r % m for a uint32_t r and a small m (m < 2^15)
Mod32(r, m) == ((r[1] % m) * (B16 % m) + r[2]) % m

kawpow_math(a, b, r) ==
    LET c == Mod32(r, 11)
    IN  CASE c = 0 -> Add32(a, b)
          [] c = 1 -> Mul32(a, b)
          [] c = 2 -> MulHi32(a, b)
          [] c = 3 -> IF Lt32(a, b) THEN a ELSE b
          [] c = 4 -> rotl32(a, b[2] % 32)
          [] c = 5 -> rotr32(a, b[2] % 32)
          [] c = 6 -> And32(a, b)
          [] c = 7 -> Or32(a, b)
          [] c = 8 -> Xor32(a, b)
          [] c = 9 -> U32(clz32(Or32(a, U32(1))) + clz32(Or32(b, U32(1))))
          [] c = 10 -> U32(popcount32(a) + popcount32(b))

\* a variant whose rotate amount is (r >> 16) % 32
merge_rot32(a, b, r) ==
    LET c == r[2] % 4
    IN  CASE c = 0 -> Add32(Mul32(a, U32(33)), b)
          [] c = 1 -> Mul32(Xor32(a, b), U32(33))
          [] c = 2 -> Xor32(rotl32(a, r[1] % 32), b)
          [] c = 3 -> Xor32(rotr32(a, r[1] % 32), b)

kawpow_merge(a, b, r) ==
    LET c == r[2] % 4
    IN  CASE c = 0 -> Add32(Mul32(a, U32(33)), b)
          [] c = 1 -> Mul32(Xor32(a, b), U32(33))
          [] c = 2 -> Xor32(rotl32(a, (r[1] % 31) + 1), b)
          [] c = 3 -> Xor32(rotr32(a, (r[1] % 31) + 1), b)

\* kiss99: the generator's new state and the value it returns
kiss99(st) ==
    LET z == Add32(Mul32(U32(36969), W32(0, st.z[2])), W32(0, st.z[1]))
        w == Add32(Mul32(U32(18000), W32(0, st.w[2])), W32(0, st.w[1]))
        MWC == Add32(W32(z[2], 0), w)
        j1 == Xor32(st.jsr, Shl32(st.jsr, 17))
        j2 == Xor32(j1, Shr32(j1, 13))
        j3 == Xor32(j2, Shl32(j2, 5))
        jc == Add32(Mul32(U32(69069), st.jcong), U32(1234567))
    IN  [st |-> [z |-> z, w |-> w, jsr |-> j3, jcong |-> jc],
         val |-> Add32(Xor32(MWC, jc), j3)]


(***************************************************************************)
(* 64-bit values: <<l3, l2, l1, l0>>, 16-bit limbs, most significant first *)
(***************************************************************************)
\* ((uint64_t)hi << 32) | lo
U64Of(hi, lo) == <<hi[1], hi[2], lo[1], lo[2]>>

\* (uint32_t)v and (uint32_t)(v >> 32)
Lo32(v) == W32(v[3], v[4])
Hi32(v) == W32(v[1], v[2])

(***************************************************************************)
(* kawpow-slow-hash.c: the hash                                            *)
(***************************************************************************)
Lanes == 0..(KAWPOW_LANES - 1)

\* mix[l][r] is written Reg(mix, l, r): the arrays are tuples, indexed from 1
Reg(mix, l, r) == mix[l + 1][r + 1]

RECURSIVE For(_, _, _, _)
\* the value of s after "for (i = lo; i < hi; i++) s = Body(s, i);".  The
\* loop over lo .. hi-1 is the loop over lo .. mid-1 followed by the loop over
\* mid .. hi-1; p is the value the first half leaves.
For(Body(_, _), s, lo, hi) ==
    IF hi <= lo THEN s
    ELSE IF hi = lo + 1 THEN Body(s, lo)
    ELSE CHOOSE r \in {For(Body, p, (lo + hi) \div 2, hi) :
                         p \in {For(Body, s, lo, (lo + hi) \div 2)}} : TRUE

\* C passes its arguments by value: x is the value of v, computed once
\* before F runs
ByValue(F(_), v) == CHOOSE r \in {F(x) : x \in {v}} : TRUE

\* one more call of kiss99(&st): the generator's state and the values drawn
Draw(d, i) ==
    LET k == kiss99(d.st)
    IN  [st |-> k.st, vals |-> Append(d.vals, k.val)]

\* n successive calls of kiss99(&st)
Draws(st, n) == For(Draw, [st |-> st, vals |-> <<>>], 0, n)

kawpow_fill_mix(seed, lane_id) ==
    LET z == fnv1a(FNV_OFFSET_BASIS, Lo32(seed))
        w == fnv1a(z, Hi32(seed))
        jsr == fnv1a(w, U32(lane_id))
        jcong == fnv1a(jsr, U32(lane_id))
    IN  Draws([z |-> z, w |-> w, jsr |-> jsr, jcong |-> jcong], KAWPOW_REGS).vals

\* st[i] = rotl32(st[i], 1) ^ st[(i + 1) % 25], in place: the step for i = 24
\* reads the st[0] already written by the step for i = 0
KeccakStep(st, i) ==
    [st EXCEPT ![i + 1] = Xor32(rotl32(st[i + 1], 1), st[((i + 1) % 25) + 1])]

KeccakRound(st, round) == For(KeccakStep, st, 0, 25)

keccak_f800_progpow(st) == For(KeccakRound, st, 0, 22)

\* input32[i]: bytes 4i .. 4i+3 of the buffer read as a little-endian word
input32(data, i) ==
    W32(data[4 * i + 4] * 256 + data[4 * i + 3], data[4 * i + 2] * 256 + data[4 * i + 1])

Min(a, b) == IF a < b THEN a ELSE b

ZeroState ==
    <<ZERO32, ZERO32, ZERO32, ZERO32, ZERO32, ZERO32, ZERO32, ZERO32, ZERO32,
      ZERO32, ZERO32, ZERO32, ZERO32, ZERO32, ZERO32, ZERO32, ZERO32, ZERO32,
      ZERO32, ZERO32, ZERO32, ZERO32, ZERO32, ZERO32, ZERO32>>

\* memset(keccak_state, 0, ...), then "for (i = 0; i < input_words &&
\* i < limit; i++) keccak_state[i] = input32[i]", input_words = length / 4
Absorb(data, length, limit) ==
    LET input_words == length \div 4
    IN  For(LAMBDA st, i : [st EXCEPT ![i + 1] = input32(data, i)],
            ZeroState, 0, Min(input_words, limit))

prog_seed == <<0, 0, 0, 1>>

ProgRndInit(ps) ==
    LET z == fnv1a(FNV_OFFSET_BASIS, Lo32(ps))
        w == fnv1a(z, Hi32(ps))
        jsr == fnv1a(w, Lo32(ps))
        jcong == fnv1a(jsr, Hi32(ps))
    IN  [z |-> z, w |-> w, jsr |-> jsr, jcong |-> jcong]

\* dag_data[l][i] = fnv1a(mix[l][0], loop * KAWPOW_LANES + l + i)
DagData(mix, loop) ==
    For(LAMBDA rows, l :
          Append(rows,
                 For(LAMBDA row, i :
                       Append(row, fnv1a(Reg(mix, l, 0), U32(loop * KAWPOW_LANES + l + i))),
                     <<>>, 0, KAWPOW_DAG_LOADS)),
        <<>>, 0, KAWPOW_LANES)

\* mix[l][dst] = kawpow_merge(mix[l][dst], kawpow_math(mix[l][src1], mix[l][src2], sel1), sel2)
MathLane(mix, l, src1, src2, dst, sel1, sel2) ==
    LET math_result == kawpow_math(Reg(mix, l, src1), Reg(mix, l, src2), sel1)
    IN  [mix EXCEPT ![l + 1][dst + 1] = kawpow_merge(@, math_result, sel2)]

\* mix[l][dst] = kawpow_merge(mix[l][dst], fnv1a(mix[l][src], sel), sel)
CacheLane(mix, l, src, dst, sel) ==
    LET cache_data == fnv1a(Reg(mix, l, src), sel)
    IN  [mix EXCEPT ![l + 1][dst + 1] = kawpow_merge(@, cache_data, sel)]

\* a merge that takes the word fetched for the next lane
DagLaneOfNeighbour(mix, l, dag_data, i, dst, sel) ==
    [mix EXCEPT ![l + 1][dst + 1] =
       kawpow_merge(@, dag_data[((l + 1) % KAWPOW_LANES) + 1][i + 1], sel)]

\* mix[l][dst] = kawpow_merge(mix[l][dst], dag_data[l][i], sel)
DagLane(mix, l, dag_data, i, dst, sel) ==
    [mix EXCEPT ![l + 1][dst + 1] = kawpow_merge(@, dag_data[l + 1][i + 1], sel)]

\* the body of "if (i < KAWPOW_CNT_MATH)": five draws, then every lane
MathOp(s) ==
    ByValue(LAMBDA d :
              CHOOSE r \in
                {[prog_rnd |-> d.st,
                  mix |-> For(LAMBDA m, l : MathLane(m, l, src1, src2, dst, sel1, sel2),
                              s.mix, 0, KAWPOW_LANES)] :
                    src1 \in {Mod32(d.vals[1], KAWPOW_REGS)},
                    src2 \in {Mod32(d.vals[2], KAWPOW_REGS)},
                    dst \in {Mod32(d.vals[3], KAWPOW_REGS)},
                    sel1 \in {d.vals[4]},
                    sel2 \in {d.vals[5]}} : TRUE,
            Draws(s.prog_rnd, 5))

\* the body of "if (i < KAWPOW_CNT_CACHE)": three draws, then every lane
CacheOp(s) ==
    ByValue(LAMBDA d :
              CHOOSE r \in
                {[prog_rnd |-> d.st,
                  mix |-> For(LAMBDA m, l : CacheLane(m, l, src, dst, sel),
                              s.mix, 0, KAWPOW_LANES)] :
                    src \in {Mod32(d.vals[1], KAWPOW_REGS)},
                    dst \in {Mod32(d.vals[2], KAWPOW_REGS)},
                    sel \in {d.vals[3]}} : TRUE,
            Draws(s.prog_rnd, 3))

max_ops == IF KAWPOW_CNT_CACHE > KAWPOW_CNT_MATH THEN KAWPOW_CNT_CACHE ELSE KAWPOW_CNT_MATH

\* a sub-step that applies the cache operation before the math operation
SubStepCacheFirst(s, i) ==
    ByValue(LAMBDA s1 : IF i < KAWPOW_CNT_MATH THEN MathOp(s1) ELSE s1,
            IF i < KAWPOW_CNT_CACHE THEN CacheOp(s) ELSE s)

\* one pass of "for (i = 0; i < max_ops; i++)": math first, then cache
SubStep(s, i) ==
    ByValue(LAMBDA s1 : IF i < KAWPOW_CNT_CACHE THEN CacheOp(s1) ELSE s1,
            IF i < KAWPOW_CNT_MATH THEN MathOp(s) ELSE s)

\* one pass of "for (i = 0; i < KAWPOW_DAG_LOADS; i++)": dst is register 0
\* for i = 0, without a draw, and a drawn register otherwise
MergeDagStep(s, dag_data, i) ==
    ByValue(LAMBDA d :
              CHOOSE r \in
                {[prog_rnd |-> d.st,
                  mix |-> For(LAMBDA m, l : DagLane(m, l, dag_data, i, dst, sel),
                              s.mix, 0, KAWPOW_LANES)] :
                    dst \in {IF i = 0 THEN 0 ELSE Mod32(d.vals[1], KAWPOW_REGS)},
                    sel \in {IF i = 0 THEN d.vals[1] ELSE d.vals[2]}} : TRUE,
            Draws(s.prog_rnd, IF i = 0 THEN 1 ELSE 2))

\* one outer iteration: the DAG loads, the sub-steps, the DAG merge
Iteration(s, loop) ==
    ByValue(LAMBDA dag_data :
              ByValue(LAMBDA s1 :
                        For(LAMBDA t, i : MergeDagStep(t, dag_data, i),
                            s1, 0, KAWPOW_DAG_LOADS),
                      For(SubStep, s, 0, max_ops)),
            DagData(s.mix, loop))

\* "for (loop = 0; loop < KAWPOW_CNT_DAG; loop++)"
MainLoop(s) == For(Iteration, s, 0, KAWPOW_CNT_DAG)

\* the calls of kiss99(&prog_rnd) in one outer iteration: five for each math
\* operation, three for each cache operation, one for the first DAG merge
\* and two for each later one
DrawsPerIteration ==
    KAWPOW_CNT_MATH * 5 + KAWPOW_CNT_CACHE * 3 + 1 + (KAWPOW_DAG_LOADS - 1) * 2

\* the program: the values prog_rnd gives in the first outer iteration, from
\* which the registers and the selectors of its instructions are taken
Program(ps) == Draws(ProgRndInit(ps), DrawsPerIteration).vals

\* the program of a call that hashes the block at height: the function has
\* no height parameter and prog_seed is the constant of line 227
ProgramOfCall(height) == Program(prog_seed)

\* digest_lane[l]: FNV_OFFSET_BASIS folded over the lane's registers in order
DigestLane(regs) ==
    For(LAMBDA d, i : fnv1a(d, regs[i + 1]), FNV_OFFSET_BASIS, 0, KAWPOW_REGS)

DigestLanes(mix) ==
    For(LAMBDA ds, l : Append(ds, DigestLane(mix[l + 1])), <<>>, 0, KAWPOW_LANES)

\* final_digest: eight accumulators, lane l folded into accumulator l % 8
FinalDigest(digest_lane) ==
    For(LAMBDA fd, l : [fd EXCEPT ![(l % 8) + 1] = fnv1a(@, digest_lane[l + 1])],
        <<FNV_OFFSET_BASIS, FNV_OFFSET_BASIS, FNV_OFFSET_BASIS, FNV_OFFSET_BASIS,
          FNV_OFFSET_BASIS, FNV_OFFSET_BASIS, FNV_OFFSET_BASIS, FNV_OFFSET_BASIS>>,
        0, KAWPOW_LANES)

\* "for (l = 0; l < KAWPOW_LANES; l++) kawpow_fill_mix(seed, l, mix[l])"
InitMix(seed) ==
    For(LAMBDA m, l : Append(m, kawpow_fill_mix(seed, l)), <<>>, 0, KAWPOW_LANES)

\* the bytes of a word in memory (little-endian)
BytesOf(w) == <<w[2] % 256, w[2] \div 256, w[1] % 256, w[1] \div 256>>

\* memcpy(result, st, 4 * n)
WordsToBytes(st, n) == For(LAMBDA bs, i : bs \o BytesOf(st[i + 1]), <<>>, 0, n)

\* the final keccak state: memset, the first min(input_words, 8) input words,
\* the seed in words 8 and 9, final_digest in words 10 .. 17
FinalState(data, length, seed, final_digest) ==
    [Absorb(data, length, 8) EXCEPT
       ![9] = Lo32(seed), ![10] = Hi32(seed),
       ![11] = final_digest[1], ![12] = final_digest[2],
       ![13] = final_digest[3], ![14] = final_digest[4],
       ![15] = final_digest[5], ![16] = final_digest[6],
       ![17] = final_digest[7], ![18] = final_digest[8]]

\* uint64_t seed = ((uint64_t)keccak_state[0] << 32) | keccak_state[1]
SeedOf(data, length) ==
    ByValue(LAMBDA keccak_state : U64Of(keccak_state[1], keccak_state[2]),
            ByValue(keccak_f800_progpow, Absorb(data, length, 18)))

\* final_digest as the mixing leaves it: the lanes filled from the seed, the
\* main loop, the reduction of every lane and the fold of the lanes
MixDigest(seed) ==
    ByValue(LAMBDA mix0 :
              ByValue(LAMBDA s : ByValue(FinalDigest, DigestLanes(s.mix)),
                      MainLoop([prog_rnd |-> ProgRndInit(prog_seed), mix |-> mix0])),
            InitMix(seed))

\* the final keccak pass and the copy of HASH_SIZE bytes to result_hash
FinalPass(data, length, seed, final_digest) ==
    ByValue(LAMBDA keccak_state : WordsToBytes(keccak_state, HASH_SIZE \div 4),
            ByValue(keccak_f800_progpow, FinalState(data, length, seed, final_digest)))

(***************************************************************************)
(* The arguments the calls of the model are made with.  The seed hashes    *)
(* differ in every byte.  The headers are one whose length is no multiple  *)
(* of 4, its first ABSORB_BYTES bytes after zero padding, and that block   *)
(* with a byte after it.                                                   *)
(***************************************************************************)
SeedA == [i \in 1..HASH_SIZE |-> 170]
SeedB == [i \in 1..HASH_SIZE |-> 187]
SeedHashes == {SeedA, SeedB}

\* the bytes 18 words of input take
ABSORB_BYTES == 18 * 4

\* data cut to n bytes, or filled with zero bytes up to n bytes
ZeroPad(data, n) == [i \in 1..n |-> IF i <= Len(data) THEN data[i] ELSE 0]

Header5 == <<1, 2, 3, 4, 5>>
Header72 == ZeroPad(Header5, ABSORB_BYTES)
Header73 == Header72 \o <<7>>
Headers == {Header5, Header72, Header73}

\* final_digest is a function of the internal seed alone: it is computed once
\* for each internal seed that the headers give
InternalSeeds == {SeedOf(data, Len(data)) : data \in Headers}
final_digest_of == [seed \in InternalSeeds |-> MixDigest(seed)]

\* kawpow_slow_hash(seedhash, data, length, result_hash): the HASH_SIZE bytes
\* it leaves in result_hash.  Neither seedhash nor any variable of the file
\* is read.
kawpow_slow_hash(seedhash, data, length) ==
    ByValue(LAMBDA seed : FinalPass(data, length, seed, final_digest_of[seed]),
            SeedOf(data, length))

\* the digest of every call the model makes
slow_hash_of ==
    [seedhash \in SeedHashes, data \in Headers |->
        kawpow_slow_hash(seedhash, data, Len(data))]

(***************************************************************************)
(* uint64_t heights.  A height is the tuple <<l3, l2, l1, l0>> of its four *)
(* 16-bit limbs, most significant first, as U64Of builds it; the arithmetic *)
(* is modulo 2^64, as the C type's is.                                      *)
(***************************************************************************)
ZERO64 == <<0, 0, 0, 0>>
MAX64 == <<B16 - 1, B16 - 1, B16 - 1, B16 - 1>>

\* the uint64_t with value n, for 0 <= n < 2^31
U64(n) == <<0, 0, n \div B16, n % B16>>

\* a / d and a % d for a uint64_t a and 0 < d < 2^15, limb by limb
DivMod64(a, d) ==
    LET r3 == a[1] % d
        n2 == r3 * B16 + a[2]
        r2 == n2 % d
        n1 == r2 * B16 + a[3]
        r1 == n1 % d
        n0 == r1 * B16 + a[4]
    IN  [quot |-> <<a[1] \div d, n2 \div d, n1 \div d, n0 \div d>>, rem |-> n0 % d]

\* (uint64_t)(a * m) for 0 <= m < 2^15: the carry out of the top limb is lost
Mul64(a, m) ==
    LET p0 == a[4] * m
        p1 == a[3] * m + p0 \div B16
        p2 == a[2] * m + p1 \div B16
        p3 == a[1] * m + p2 \div B16
    IN  <<p3 % B16, p2 % B16, p1 % B16, p0 % B16>>

\* (uint64_t)(a + b)
Add64(a, b) ==
    LET s0 == a[4] + b[4]
        s1 == a[3] + b[3] + s0 \div B16
        s2 == a[2] + b[2] + s1 \div B16
        s3 == a[1] + b[1] + s2 \div B16
    IN  <<s3 % B16, s2 % B16, s1 % B16, s0 % B16>>

\* (uint64_t)(a - b)
Sub64(a, b) ==
    LET d0 == a[4] - b[4]
        d1 == a[3] - b[3] - (IF d0 < 0 THEN 1 ELSE 0)
        d2 == a[2] - b[2] - (IF d1 < 0 THEN 1 ELSE 0)
        d3 == a[1] - b[1] - (IF d2 < 0 THEN 1 ELSE 0)
    IN  <<d3 % B16, d2 % B16, d1 % B16, d0 % B16>>

\* a < b and a <= b as unsigned 64-bit values
Lt64(a, b) ==
    \E i \in 1..4 : a[i] < b[i] /\ \A j \in 1..(i - 1) : a[j] = b[j]
Le64(a, b) == a = b \/ Lt64(a, b)

\* a variant that rounds up to the start of the next epoch
seedheight_up(height) ==
    Add64(Mul64(DivMod64(height, KAWPOW_EPOCH_LENGTH).quot, KAWPOW_EPOCH_LENGTH),
          U64(KAWPOW_EPOCH_LENGTH))

\* kawpow_seedheight(height)
kawpow_seedheight(height) ==
    Mul64(DivMod64(height, KAWPOW_EPOCH_LENGTH).quot, KAWPOW_EPOCH_LENGTH)

\* kawpow_seedheights(height, &seed_height, &next_height): the two values
\* it stores
kawpow_seedheights(height) ==
    LET seed_height == kawpow_seedheight(height)
    IN  [seed_height |-> seed_height,
         next_height |-> Add64(seed_height, U64(KAWPOW_EPOCH_LENGTH))]

(***************************************************************************)
(* external/kawpow/kawpow.cpp: the cache and the dataset.  size_t and       *)
(* unsigned long are 64-bit.  A cache is known by the key it was            *)
(* initialised with: its words are computed from the key as                *)
(* kawpow_init_cache stores them.  A dataset is the function from the       *)
(* items written to their 256 words.                                       *)
(***************************************************************************)
CACHE_SIZE == 16 * 1024 * 1024
DATASET_SIZE == 1024 * 1024 * 1024
ITEM_BYTES == 1024
kawpow_dataset_item_count == 1024 * 1024
CACHE_STRIDE == 32
CACHE_PATTERN == W32(51966, 47806)   \* 0xCAFEBABE

\* the value of a uint64_t below 2^31
IntOf(a) == a[3] * B16 + a[4]

\* what a read of memory that new uint8_t[] left uninitialised may give
IndeterminateWords == {ZERO32, W32(B16 - 1, B16 - 1)}

\* *(uint32_t*)(cache->data + 4 * j) after kawpow_init_cache(cache, key,
\* HASH_SIZE): the memset, the memcpy of the key, and the word stored at
\* every multiple of CACHE_STRIDE bytes
cache_word(key, j) ==
    IF (4 * j) % CACHE_STRIDE = 0 THEN Xor32(U32(4 * j), CACHE_PATTERN)
    ELSE IF 4 * j + 3 < Min(HASH_SIZE, CACHE_SIZE) THEN input32(key, j)
    ELSE ZERO32

\* the first n words of the buffer after kawpow_init_cache(cache, key, HASH_SIZE)
cache_words(key, n) == [j \in 0..(n - 1) |-> cache_word(key, j)]

\* cacheIndex for the words of item startItem + i/1024
cacheIndex(item) ==
    LET p == Mul64(item, 13)
    IN  (p[3] % ((CACHE_SIZE \div 4) \div B16)) * B16 + p[4]

\* offset and size as kawpow_init_dataset computes them, modulo 2^64
init_offset(startItem) == Mul64(startItem, ITEM_BYTES)

init_size(startItem, itemCount) ==
    LET offset == init_offset(startItem)
        size == Mul64(itemCount, ITEM_BYTES)
    IN  IF Lt64(U64(DATASET_SIZE), Add64(offset, size))
        THEN Sub64(U64(DATASET_SIZE), offset)
        ELSE size

\* the stores of the loop lie in the buffer: there is none, or the first
\* and the last do
InBuffer(offset, size) ==
    \/ size = ZERO64
    \/ /\ Lt64(offset, U64(DATASET_SIZE))
       /\ Le64(size, Sub64(U64(DATASET_SIZE), offset))

\* the words the loop stores for i in [i0, i0 + 1024), where cacheValue is
\* the cache word of that item
ItemWords(cacheValue, i0) ==
    [w \in 1..(ITEM_BYTES \div 4) |-> Xor32(cacheValue, U32(i0 + 4 * (w - 1)))]

(***************************************************************************)
(* The state of the file: its static variables, the thread-local          *)
(* miner_thread of every thread, and for every thread the call it is in.   *)
(***************************************************************************)
NThreads == 2
Threads == 1..NThreads

\* the values kawpow_set_miner_thread is called with are 0 .. MaxTag
MaxTag == 1

\* memcpy(main_seedhash, seedhash, HASH_SIZE) stores the bytes in CopyParts
\* consecutive parts; another thread may run between two parts
CopyParts == 2

\* the heights of the model lie around the starts of the epochs 0 .. MaxEpoch
\* and of the last epoch below 2^64
MaxEpoch == 2

\* the number of calls of kawpow_seedheight and kawpow_seedheights recorded
MaxSeedCalls == 3

\* the blocks hashed have the heights 0 .. MaxHeight
MaxHeight == 6

\* the number of hash calls for blocks recorded
MaxBlockCalls == 2

\* the datasets allocated are 1 .. NDatasets
NDatasets == 2
Datasets == 1..NDatasets

\* the number of kawpow_init_dataset calls recorded, and the largest
\* itemCount of a call inside the buffer
MaxDatasetCalls == 3
MaxItemCount == 2

\* the keys of the kawpow_init_cache calls: the seed hashes, which differ in
\* every byte, and a key that differs from SeedA in byte 0 alone
KeyByte0 == [SeedA EXCEPT ![1] = 171]
CacheKeys == SeedHashes \cup {KeyByte0}

\* the words of the cache that are compared: every word after word
\* HASH_SIZE / 4 - 1 is the same for every key
CacheWindow == 16

\* an item whose cache word lies under the key: cacheIndex is 3
KeyedItem == ((CACHE_SIZE \div 4) + 3) \div 13

\* the (startItem, itemCount) of the calls: the ranges in the first
\* MaxItemCount items, the item of KeyedItem, a range that runs past the end
\* of the dataset, one that starts at its end and one that starts beyond it
DatasetRanges ==
    {<<s, c>> : s \in 0..(MaxItemCount - 1), c \in 1..MaxItemCount}
    \cup {<<KeyedItem, 1>>,
          <<kawpow_dataset_item_count - 1, MaxItemCount>>,
          <<kawpow_dataset_item_count, 1>>,
          <<kawpow_dataset_item_count + 1, 0>>}

NULL == "NULL"
NoFrame == [op |-> "none"]
NoResult == [op |-> "none"]
\* no thread holds the lock: the threads are 1 .. NThreads
CTHR_RWLOCK_INIT == [writer |-> 0, readers |-> {}]
ZeroHash == [i \in 1..HASH_SIZE |-> 0]
NoCall == [op |-> "none", a |-> ZERO32, b |-> ZERO32, r |-> ZERO32, ret |-> ZERO32]
NoLoop == [at |-> "none", data |-> <<>>, seed |-> ZERO64, loop |-> 0,
           s |-> [prog_rnd |-> ProgRndInit(ZERO64), mix |-> <<>>],
           ops |-> <<>>, digest_lane |-> <<>>, final_digest |-> <<>>,
           result_hash |-> <<>>]

Heights ==
    {U64(k * KAWPOW_EPOCH_LENGTH + d) :
        k \in 0..MaxEpoch, d \in {0, 1, KAWPOW_EPOCH_LENGTH - 1}}
    \cup {U64(10000), MAX64, kawpow_seedheight(MAX64),
          Sub64(kawpow_seedheight(MAX64), U64(1))}

VARIABLES
    main_dataset_lock,   \* the lock of line 64: [writer, readers]
    main_cache_lock,     \* the lock of line 65
    main_dataset,        \* static void *main_dataset
    main_cache,          \* static void *main_cache
    main_seedhash,       \* static char main_seedhash[HASH_SIZE]
    main_seedhash_set,   \* static int main_seedhash_set
    miner_thread,        \* miner_thread[t]: the thread-local of thread t
    last_tag,            \* last_tag[t]: the argument of t's last
                         \* kawpow_set_miner_thread call (0 before any)
    pc,                  \* pc[t]: where thread t is
    frame,               \* frame[t]: the arguments and locals of t's call
    result_hash,         \* result_hash[t]: the buffer of t's last hash call
    seedheight_calls,    \* the calls of kawpow_seedheight made, in order
    seedheights_calls,   \* the calls of kawpow_seedheights made, in order
    block_calls,         \* the hash calls a miner made for blocks, in order
    cache,               \* the kawpow_cache: [alloc, init, key]
    dataset,             \* dataset[d]: [alloc, items]
    init_dataset_calls,  \* the calls of kawpow_init_dataset made, in order
    heap,                \* "ok", or what a store outside a buffer did
    op_call,             \* the last call of kawpow_math or kawpow_merge
    hash_loop            \* a kawpow_slow_hash call taken one outer iteration
                         \* at a time: its locals

vars == <<main_dataset_lock, main_cache_lock, main_dataset, main_cache,
          main_seedhash, main_seedhash_set, miner_thread, last_tag, pc, frame,
          result_hash, seedheight_calls, seedheights_calls, block_calls,
          cache, dataset, init_dataset_calls, heap, op_call, hash_loop>>

engine_vars == <<main_dataset_lock, main_cache_lock, main_dataset, main_cache,
                 main_seedhash, main_seedhash_set, miner_thread, last_tag, pc,
                 frame, result_hash>>

lib_vars == <<cache, dataset, init_dataset_calls, heap>>

unit_vars == <<op_call, hash_loop>>

seed_vars == <<seedheight_calls, seedheights_calls, block_calls, lib_vars,
               unit_vars>>

Init ==
    /\ main_dataset_lock = CTHR_RWLOCK_INIT
    /\ main_cache_lock = CTHR_RWLOCK_INIT
    /\ main_dataset = NULL
    /\ main_cache = NULL
    /\ main_seedhash = ZeroHash
    /\ main_seedhash_set = 0
    /\ miner_thread = [t \in Threads |-> 0]
    /\ last_tag = [t \in Threads |-> 0]
    /\ pc = [t \in Threads |-> "idle"]
    /\ frame = [t \in Threads |-> NoFrame]
    /\ result_hash = [t \in Threads |-> NoResult]
    /\ seedheight_calls = <<>>
    /\ seedheights_calls = <<>>
    /\ block_calls = <<>>
    /\ cache = [alloc |-> FALSE, init |-> FALSE, key |-> ZeroHash]
    /\ dataset = [d \in Datasets |-> [alloc |-> FALSE, items |-> <<>>]]
    /\ init_dataset_calls = <<>>
    /\ heap = "ok"
    /\ op_call = NoCall
    /\ hash_loop = NoLoop

(***************************************************************************)
(* kawpow_slow_hash.  The call takes no lock and reads no variable of the  *)
(* file; it works on its arguments and its locals between the step that    *)
(* enters it and the step that returns.                                    *)
(***************************************************************************)
\* the indices of the bytes that part k of a memcpy of n bytes stores
PartOf(k, n) == (((k - 1) * n) \div CopyParts + 1)..((k * n) \div CopyParts)

\* a memcpy into main_seedhash has stored some of its parts and not all
PartlyCopied ==
    \E u \in Threads :
        pc[u] = "memcpy" /\ frame[u].copied > 0 /\ frame[u].copied < CopyParts

\* a variant whose digest takes in the calling thread's miner_thread
HashOfMinerThread(t, seedhash, data) ==
    [slow_hash_of[seedhash, data] EXCEPT ![1] = (@ + miner_thread[t]) % 256]

\* a variant whose digest takes in main_seedhash, read without the lock
HashOfMainSeedhash(t, seedhash, data) ==
    [i \in 1..HASH_SIZE |->
        (slow_hash_of[seedhash, data][i] + main_seedhash[i]) % 256]

\* what the call of thread t leaves in result_hash
SlowHashCall(t, seedhash, data) == slow_hash_of[seedhash, data]

\* is_main(seedhash).  No function calls it; the frames of the model keep
\* its value at the entry of a call for the properties to refer to.
is_main(seedhash) == main_seedhash_set = 1 /\ seedhash = main_seedhash

HashCall(t, seedhash, data) ==
    /\ pc[t] = "idle"
    /\ pc' = [pc EXCEPT ![t] = "hash"]
    /\ frame' = [frame EXCEPT ![t] =
                    [op |-> "hash", seedhash |-> seedhash, data |-> data,
                     length |-> Len(data), overlapped |-> PartlyCopied,
                     was_main |-> is_main(seedhash)]]
    /\ result_hash' = [result_hash EXCEPT ![t] = NoResult]
    /\ UNCHANGED <<main_dataset_lock, main_cache_lock, main_dataset, main_cache,
                   main_seedhash, main_seedhash_set, miner_thread, last_tag, seed_vars>>

HashReturn(t) ==
    /\ pc[t] = "hash"
    /\ pc' = [pc EXCEPT ![t] = "idle"]
    /\ result_hash' = [result_hash EXCEPT ![t] =
                          [op |-> "hash",
                           seedhash |-> frame[t].seedhash,
                           data |-> frame[t].data,
                           overlapped |-> frame[t].overlapped,
                           hash |-> SlowHashCall(t, frame[t].seedhash, frame[t].data)]]
    /\ frame' = [frame EXCEPT ![t] = NoFrame]
    /\ UNCHANGED <<main_dataset_lock, main_cache_lock, main_dataset, main_cache,
                   main_seedhash, main_seedhash_set, miner_thread, last_tag, seed_vars>>

(***************************************************************************)
(* kawpow_set_main_seedhash(seedhash, max_dataset_init_threads)            *)
(***************************************************************************)
\* a variant that clears a destination that holds the source's bytes already
memcpy_clearing(dst, src, k) ==
    [i \in 1..HASH_SIZE |->
        IF dst = src THEN 0
        ELSE IF i \in PartOf(k, HASH_SIZE) THEN src[i] ELSE dst[i]]

\* dst after memcpy(dst, src, HASH_SIZE) has stored its part k
memcpy_part(dst, src, k) ==
    [i \in 1..HASH_SIZE |-> IF i \in PartOf(k, HASH_SIZE) THEN src[i] ELSE dst[i]]

\* CTHR_RWLOCK_LOCK_WRITE(main_cache_lock): the thread waits for the lock
SetLock(t, seedhash) ==
    /\ pc[t] = "idle"
    /\ main_cache_lock = CTHR_RWLOCK_INIT
    /\ main_cache_lock' = [writer |-> t, readers |-> {}]
    /\ pc' = [pc EXCEPT ![t] = "memcpy"]
    /\ frame' = [frame EXCEPT ![t] =
                    [op |-> "set", seedhash |-> seedhash, copied |-> 0,
                     was_main |-> is_main(seedhash)]]
    /\ UNCHANGED <<main_dataset_lock, main_dataset, main_cache, main_seedhash,
                   main_seedhash_set, miner_thread, last_tag, result_hash, seed_vars>>

\* memcpy(main_seedhash, seedhash, HASH_SIZE), one part
SetMemcpy(t) ==
    /\ pc[t] = "memcpy"
    /\ LET k == frame[t].copied + 1
       IN  /\ main_seedhash' = memcpy_part(main_seedhash, frame[t].seedhash, k)
           /\ pc' = [pc EXCEPT ![t] = IF k = CopyParts THEN "set_flag" ELSE "memcpy"]
           /\ frame' = [u \in Threads |->
                          IF u = t THEN [frame[t] EXCEPT !.copied = k]
                          ELSE IF pc[u] = "hash"
                               THEN [frame[u] EXCEPT !.overlapped = TRUE]
                               ELSE frame[u]]
    /\ UNCHANGED <<main_dataset_lock, main_cache_lock, main_dataset, main_cache,
                   main_seedhash_set, miner_thread, last_tag, result_hash, seed_vars>>

\* main_seedhash_set = 1
SetFlag(t) ==
    /\ pc[t] = "set_flag"
    /\ main_seedhash_set' = 1
    /\ pc' = [pc EXCEPT ![t] = "unlock"]
    /\ UNCHANGED <<main_dataset_lock, main_cache_lock, main_dataset, main_cache,
                   main_seedhash, miner_thread, last_tag, frame, result_hash, seed_vars>>

\* CTHR_RWLOCK_UNLOCK_WRITE(main_cache_lock) and the return
SetUnlock(t) ==
    /\ pc[t] = "unlock"
    /\ main_cache_lock' = CTHR_RWLOCK_INIT
    /\ pc' = [pc EXCEPT ![t] = "idle"]
    /\ frame' = [frame EXCEPT ![t] = NoFrame]
    /\ UNCHANGED <<main_dataset_lock, main_dataset, main_cache, main_seedhash,
                   main_seedhash_set, miner_thread, last_tag, result_hash, seed_vars>>

(***************************************************************************)
(* kawpow_set_miner_thread, kawpow_get_miner_thread,                       *)
(* kawpow_slow_hash_allocate_state, kawpow_slow_hash_free_state            *)
(***************************************************************************)
\* a variant in which miner_thread is one variable of the file, not one
\* for each thread
store_shared(mt, t, value) == [u \in Threads |-> value]

\* miner_thread = value in thread t: the variable is THREADV
store_thread_local(mt, t, value) == [mt EXCEPT ![t] = value]

SetMinerThread(t, value) ==
    /\ pc[t] = "idle"
    /\ miner_thread' = store_thread_local(miner_thread, t, value)
    /\ last_tag' = [last_tag EXCEPT ![t] = value]
    /\ UNCHANGED <<main_dataset_lock, main_cache_lock, main_dataset, main_cache,
                   main_seedhash, main_seedhash_set, pc, frame, result_hash,
                   seed_vars>>

\* what kawpow_get_miner_thread() returns in thread t
kawpow_get_miner_thread(t) == miner_thread[t]

\* returns miner_thread[t]; stores nothing
GetMinerThread(t) ==
    /\ pc[t] = "idle"
    /\ UNCHANGED vars

\* writes a line to the log; stores nothing
AllocateState(t) ==
    /\ pc[t] = "idle"
    /\ UNCHANGED vars

\* writes a line to the log; stores nothing
FreeState(t) ==
    /\ pc[t] = "idle"
    /\ UNCHANGED vars

Next ==
    \E t \in Threads :
        \/ \E seedhash \in SeedHashes, data \in Headers : HashCall(t, seedhash, data)
        \/ HashReturn(t)
        \/ \E seedhash \in SeedHashes : SetLock(t, seedhash)
        \/ SetMemcpy(t)
        \/ SetFlag(t)
        \/ SetUnlock(t)
        \/ \E value \in 0..MaxTag : SetMinerThread(t, value)
        \/ GetMinerThread(t)
        \/ AllocateState(t)
        \/ FreeState(t)

Spec == Init /\ [][Next]_vars

(***************************************************************************)
(* kawpow_seedheight and kawpow_seedheights, called with the heights of    *)
(* Heights.  They read and store nothing but their arguments.              *)
(***************************************************************************)
SeedCalls == Len(seedheight_calls) + Len(seedheights_calls)

SeedHeight(height) ==
    /\ SeedCalls < MaxSeedCalls
    /\ seedheight_calls' =
          Append(seedheight_calls,
                 [height |-> height, ret |-> kawpow_seedheight(height)])
    /\ UNCHANGED <<engine_vars, unit_vars, lib_vars, seedheights_calls, block_calls>>

\* kawpow_seedheight called with the value an earlier call returned
SeedHeightOfResult ==
    /\ SeedCalls < MaxSeedCalls
    /\ \E i \in DOMAIN seedheight_calls :
          seedheight_calls' =
              Append(seedheight_calls,
                     [height |-> seedheight_calls[i].ret,
                      ret |-> kawpow_seedheight(seedheight_calls[i].ret)])
    /\ UNCHANGED <<engine_vars, unit_vars, lib_vars, seedheights_calls, block_calls>>

SeedHeights(height) ==
    /\ SeedCalls < MaxSeedCalls
    /\ LET out == kawpow_seedheights(height)
       IN  seedheights_calls' =
              Append(seedheights_calls,
                     [height |-> height,
                      seed_height |-> out.seed_height,
                      next_height |-> out.next_height])
    /\ UNCHANGED <<engine_vars, unit_vars, lib_vars, seedheight_calls, block_calls>>

SeedNext ==
    \/ \E height \in Heights : SeedHeight(height)
    \/ SeedHeightOfResult
    \/ \E height \in Heights : SeedHeights(height)

SeedSpec == Init /\ [][SeedNext]_vars

(***************************************************************************)
(* A miner hashing blocks: kawpow_slow_hash called for the header of the   *)
(* block at a height, one call after the other.  The height is known to    *)
(* the caller; the parameters of the function are the seed hash, the       *)
(* header and its length.  Each call is recorded with the program it ran.  *)
(***************************************************************************)
program_at == [height \in 0..MaxHeight |-> ProgramOfCall(height)]

HashBlock(height, seedhash, data) ==
    /\ Len(block_calls) < MaxBlockCalls
    /\ block_calls' =
          Append(block_calls,
                 [height |-> height, seedhash |-> seedhash, data |-> data,
                  program |-> program_at[height],
                  hash |-> SlowHashCall(1, seedhash, data)])
    /\ UNCHANGED <<engine_vars, unit_vars, lib_vars, seedheight_calls, seedheights_calls>>

BlockNext ==
    \E height \in 0..MaxHeight, seedhash \in SeedHashes, data \in Headers :
        HashBlock(height, seedhash, data)

BlockSpec == Init /\ [][BlockNext]_vars

(***************************************************************************)
(* kawpow_alloc_cache, kawpow_init_cache, kawpow_alloc_dataset and          *)
(* kawpow_init_dataset of external/kawpow/kawpow.cpp, called one after the  *)
(* other.  A store outside the dataset buffer is undefined: the process     *)
(* stops there or goes on with memory outside the buffer overwritten.       *)
(***************************************************************************)
AllocCache ==
    /\ heap = "ok"
    /\ ~cache.alloc
    /\ cache' = [alloc |-> TRUE, init |-> FALSE, key |-> ZeroHash]
    /\ UNCHANGED <<engine_vars, unit_vars, seedheight_calls, seedheights_calls, block_calls,
                   dataset, init_dataset_calls, heap>>

\* kawpow_init_cache(cache, key, HASH_SIZE); it returns at once for no cache
InitCache(key) ==
    /\ heap = "ok"
    /\ cache' = IF cache.alloc THEN [alloc |-> TRUE, init |-> TRUE, key |-> key]
                ELSE cache
    /\ UNCHANGED <<engine_vars, unit_vars, seedheight_calls, seedheights_calls, block_calls,
                   dataset, init_dataset_calls, heap>>

AllocDataset(d) ==
    /\ heap = "ok"
    /\ ~dataset[d].alloc
    /\ dataset' = [dataset EXCEPT ![d] = [alloc |-> TRUE, items |-> <<>>]]
    /\ UNCHANGED <<engine_vars, unit_vars, seedheight_calls, seedheights_calls, block_calls,
                   cache, init_dataset_calls, heap>>

\* the items of the calls that lie in the buffer
WindowItems ==
    {r[1] + j : r \in DatasetRanges, j \in 0..(MaxItemCount - 1)}

\* cacheValue for the words of an item, read from cache c; garbage is what
\* a cache that was not initialised gives
CacheValue(c, item, garbage) ==
    IF c.init THEN cache_word(c.key, cacheIndex(item)) ELSE garbage

CacheValues ==
    {cache_word(key, cacheIndex(U64(k))) : key \in CacheKeys, k \in WindowItems}
    \cup IndeterminateWords

item_words ==
    [cacheValue \in CacheValues, j \in 0..(MaxItemCount - 1) |->
        ItemWords(cacheValue, j * ITEM_BYTES)]

\* the items of the dataset after the loop of a call whose stores lie in
\* the buffer
StoreItems(items, c, startItem, offset, size, garbage) ==
    LET first == IntOf(offset) \div ITEM_BYTES
        written == first..(first + (IntOf(size) \div ITEM_BYTES) - 1)
    IN  [k \in (DOMAIN items) \cup written |->
            IF k \in written
            THEN item_words[CacheValue(c, Add64(startItem, U64(k - first)), garbage),
                            k - first]
            ELSE items[k]]

InitDataset(d, startItem, itemCount) ==
    /\ heap = "ok"
    /\ Len(init_dataset_calls) < MaxDatasetCalls
    /\ IF ~dataset[d].alloc \/ ~cache.alloc
       THEN UNCHANGED <<dataset, init_dataset_calls, heap>>
       ELSE LET offset == init_offset(startItem)
                size == init_size(startItem, itemCount)
            IN  /\ init_dataset_calls' =
                      Append(init_dataset_calls,
                             [dataset |-> d, startItem |-> startItem,
                              itemCount |-> itemCount,
                              init |-> cache.init, key |-> cache.key,
                              offset |-> offset, size |-> size])
                /\ IF InBuffer(offset, size)
                   THEN /\ \E garbage \in (IF cache.init THEN {ZERO32}
                                           ELSE IndeterminateWords) :
                              dataset' =
                                  [dataset EXCEPT ![d].items =
                                      StoreItems(@, cache, startItem, offset,
                                                 size, garbage)]
                        /\ heap' = heap
                   ELSE /\ dataset' = dataset
                        /\ heap' \in {"crash", "corrupt"}
    /\ UNCHANGED <<engine_vars, unit_vars, seedheight_calls, seedheights_calls, block_calls,
                   cache>>

DatasetNext ==
    \/ AllocCache
    \/ \E key \in CacheKeys : InitCache(key)
    \/ \E d \in Datasets : AllocDataset(d)
    \/ \E d \in Datasets, r \in DatasetRanges :
          InitDataset(d, U64(r[1]), U64(r[2]))

DatasetSpec == Init /\ [][DatasetNext]_vars

(***************************************************************************)
(* kawpow_math and kawpow_merge, called with the words of OpWords and the   *)
(* selectors that reach every case.                                        *)
(***************************************************************************)
OpWords ==
    {ZERO32, U32(1), U32(31), U32(32), W32(B16 \div 2, 0), W32(B16 - 1, B16 - 1),
     W32(4660, 22136)}

\* r % 11 takes every value; 11 and 2^32 - 1 are selectors beyond 0 .. 10
MathSelectors == {U32(c) : c \in 0..11} \cup {W32(B16 - 1, B16 - 1)}

\* r % 4 takes every value, (r >> 16) % 31 the values 0, 1 and 30
MergeSelectors == {W32(m, c) : m \in {0, 30, 31, B16 - 1}, c \in 0..3}

MathCall(a, b, r) ==
    /\ op_call' = [op |-> "math", a |-> a, b |-> b, r |-> r,
                   ret |-> kawpow_math(a, b, r)]
    /\ UNCHANGED <<engine_vars, seedheight_calls, seedheights_calls, block_calls,
                   lib_vars, hash_loop>>

MergeCall(a, b, r) ==
    /\ op_call' = [op |-> "merge", a |-> a, b |-> b, r |-> r,
                   ret |-> kawpow_merge(a, b, r)]
    /\ UNCHANGED <<engine_vars, seedheight_calls, seedheights_calls, block_calls,
                   lib_vars, hash_loop>>

OpsNext ==
    \/ \E a \in OpWords, b \in OpWords, r \in MathSelectors : MathCall(a, b, r)
    \/ \E a \in OpWords, b \in OpWords, r \in MergeSelectors : MergeCall(a, b, r)

OpsSpec == Init /\ [][OpsNext]_vars

(***************************************************************************)
(* One call of kawpow_slow_hash taken an outer iteration at a time.        *)
(* hash_loop holds the call's locals: the header, the internal seed, the   *)
(* loop counter, prog_rnd and mix, and the operations the last outer       *)
(* iteration executed, in the order it executed them.                      *)
(***************************************************************************)
Op(kind, i, src1, src2, dst, sel1, sel2) ==
    [kind |-> kind, i |-> i, src1 |-> src1, src2 |-> src2, dst |-> dst,
     sel1 |-> sel1, sel2 |-> sel2]

\* the operation of "if (i < KAWPOW_CNT_MATH)": its registers and selectors
MathTrace(t, i) ==
    ByValue(LAMBDA d :
              [prog_rnd |-> d.st,
               ops |-> Append(t.ops,
                              Op("math", i, Mod32(d.vals[1], KAWPOW_REGS),
                                 Mod32(d.vals[2], KAWPOW_REGS),
                                 Mod32(d.vals[3], KAWPOW_REGS), d.vals[4], d.vals[5]))],
            Draws(t.prog_rnd, 5))

\* the operation of "if (i < KAWPOW_CNT_CACHE)": sel is both the word hashed
\* with the source register and the selector of the merge
CacheTrace(t, i) ==
    ByValue(LAMBDA d :
              [prog_rnd |-> d.st,
               ops |-> Append(t.ops,
                              Op("cache", i, Mod32(d.vals[1], KAWPOW_REGS), 0,
                                 Mod32(d.vals[2], KAWPOW_REGS), d.vals[3], d.vals[3]))],
            Draws(t.prog_rnd, 3))

SubStepTrace(t, i) ==
    ByValue(LAMBDA t1 : IF i < KAWPOW_CNT_CACHE THEN CacheTrace(t1, i) ELSE t1,
            IF i < KAWPOW_CNT_MATH THEN MathTrace(t, i) ELSE t)

\* the merge of dag_data[l][i]: register 0 for i = 0, a drawn one otherwise
MergeDagTrace(t, i) ==
    ByValue(LAMBDA d :
              [prog_rnd |-> d.st,
               ops |-> Append(t.ops,
                              Op("dag", i, 0, 0,
                                 IF i = 0 THEN 0 ELSE Mod32(d.vals[1], KAWPOW_REGS),
                                 ZERO32,
                                 IF i = 0 THEN d.vals[1] ELSE d.vals[2]))],
            Draws(t.prog_rnd, IF i = 0 THEN 1 ELSE 2))

\* the operations of the outer iteration that starts with the generator in
\* state prog_rnd
IterationOps(prog_rnd) ==
    ByValue(LAMBDA t1 : For(MergeDagTrace, t1, 0, KAWPOW_DAG_LOADS),
            For(SubStepTrace, [prog_rnd |-> prog_rnd, ops |-> <<>>], 0, max_ops)).ops

\* the entry of kawpow_slow_hash up to the main loop
LoopStart(data) ==
    /\ hash_loop.at # "loop"
    /\ hash_loop' =
         ByValue(LAMBDA seed :
                   [at |-> "loop", data |-> data, seed |-> seed, loop |-> 0,
                    s |-> [prog_rnd |-> ProgRndInit(prog_seed), mix |-> InitMix(seed)],
                    ops |-> <<>>, digest_lane |-> <<>>, final_digest |-> <<>>,
                    result_hash |-> <<>>],
                 SeedOf(data, Len(data)))
    /\ UNCHANGED <<engine_vars, seedheight_calls, seedheights_calls, block_calls,
                   lib_vars, op_call>>

\* one pass of "for (loop = 0; loop < KAWPOW_CNT_DAG; loop++)"
LoopStep ==
    /\ hash_loop.at = "loop"
    /\ hash_loop.loop < KAWPOW_CNT_DAG
    /\ hash_loop' = [hash_loop EXCEPT
                       !.s = Iteration(hash_loop.s, hash_loop.loop),
                       !.ops = IterationOps(hash_loop.s.prog_rnd),
                       !.loop = @ + 1]
    /\ UNCHANGED <<engine_vars, seedheight_calls, seedheights_calls, block_calls,
                   lib_vars, op_call>>

\* the exit of the loop: the reduction of the lanes, the fold, the final pass
LoopFinish ==
    /\ hash_loop.at = "loop"
    /\ ~(hash_loop.loop < KAWPOW_CNT_DAG)
    /\ hash_loop' =
         ByValue(LAMBDA digest_lane :
                   ByValue(LAMBDA final_digest :
                             [hash_loop EXCEPT
                                !.at = "done",
                                !.digest_lane = digest_lane,
                                !.final_digest = final_digest,
                                !.result_hash =
                                   FinalPass(hash_loop.data, Len(hash_loop.data),
                                             hash_loop.seed, final_digest)],
                           FinalDigest(digest_lane)),
                 DigestLanes(hash_loop.s.mix))
    /\ UNCHANGED <<engine_vars, seedheight_calls, seedheights_calls, block_calls,
                   lib_vars, op_call>>

LoopNext ==
    \/ \E data \in Headers : LoopStart(data)
    \/ LoopStep
    \/ LoopFinish

LoopSpec == Init /\ [][LoopNext]_vars

(***************************************************************************)
(* Properties                                                              *)
(***************************************************************************)
E64 == U64(KAWPOW_EPOCH_LENGTH)

\* s = floor(h / KAWPOW_EPOCH_LENGTH) * KAWPOW_EPOCH_LENGTH, as integers: s
\* is the multiple of the epoch length with s <= h < s + KAWPOW_EPOCH_LENGTH
IsEpochStart(h, s) ==
    /\ DivMod64(s, KAWPOW_EPOCH_LENGTH).rem = 0
    /\ Le64(s, h)
    /\ Lt64(Sub64(h, s), E64)

\* n = s + KAWPOW_EPOCH_LENGTH, as integers
IsNextEpochStart(s, n) == Lt64(s, n) /\ Sub64(n, s) = E64

\* C1: every call kawpow_seedheight(h) returns floor(h / EPOCH_LENGTH) *
\* EPOCH_LENGTH, every call kawpow_seedheights(h) stores that value and that
\* value plus EPOCH_LENGTH; seedheight(7499) = 0, seedheight(7500) = 7500,
\* seedheights(10000) = (7500, 15000)
C1_SeedHeightFormula ==
    /\ \A i \in DOMAIN seedheight_calls :
          LET c == seedheight_calls[i]
          IN  /\ IsEpochStart(c.height, c.ret)
              /\ c.height = U64(7499) => c.ret = U64(0)
              /\ c.height = U64(7500) => c.ret = U64(7500)
    /\ \A i \in DOMAIN seedheights_calls :
          LET c == seedheights_calls[i]
          IN  /\ IsEpochStart(c.height, c.seed_height)
              /\ c.seed_height = kawpow_seedheight(c.height)
              /\ IsNextEpochStart(c.seed_height, c.next_height)
              /\ c.height = U64(10000) =>
                    c.seed_height = U64(7500) /\ c.next_height = U64(15000)

\* C2: kawpow_seedheight is idempotent (called with a value it returned, it
\* returns that value) and monotonic (a smaller height never gets a larger
\* result)
C2_IdempotentMonotonic ==
    \A i, j \in DOMAIN seedheight_calls :
        LET c1 == seedheight_calls[i]
            c2 == seedheight_calls[j]
        IN  /\ c2.height = c1.ret => c2.ret = c1.ret
            /\ Lt64(c1.height, c2.height) => Le64(c1.ret, c2.ret)

\* a call with a result it returned, and a call with a larger height in a
\* later epoch
C2_Witness ==
    \E i, j, k \in DOMAIN seedheight_calls :
        /\ seedheight_calls[i].height # seedheight_calls[i].ret
        /\ seedheight_calls[j].height = seedheight_calls[i].ret
        /\ Lt64(seedheight_calls[i].height, seedheight_calls[k].height)
        /\ Lt64(seedheight_calls[i].ret, seedheight_calls[k].ret)

\* thread t has a hash call that returned
Returned(t) == result_hash[t] # NoResult

\* C3: two hash calls with the same seed hash, header and length return the
\* same 32 bytes, whatever ran before or between them
C3_Deterministic ==
    \A t1, t2 \in Threads :
        (/\ Returned(t1) /\ Returned(t2)
         /\ result_hash[t1].seedhash = result_hash[t2].seedhash
         /\ result_hash[t1].data = result_hash[t2].data)
        => /\ result_hash[t1].hash = result_hash[t2].hash
           /\ Len(result_hash[t1].hash) = HASH_SIZE

\* two threads returned from calls with the same arguments, with a seed hash
\* published, different miner_thread values and a seed change in between
C3_Witness ==
    \E t1, t2 \in Threads :
        /\ t1 # t2 /\ Returned(t1) /\ Returned(t2)
        /\ result_hash[t1].seedhash = result_hash[t2].seedhash
        /\ result_hash[t1].data = result_hash[t2].data
        /\ miner_thread[t1] # miner_thread[t2]
        /\ main_seedhash_set = 1
        /\ result_hash[t1].overlapped # result_hash[t2].overlapped

\* C4: two hash calls with the same header and different seed hashes return
\* different digests
C4_EpochIsolation ==
    \A t1, t2 \in Threads :
        (/\ Returned(t1) /\ Returned(t2)
         /\ result_hash[t1].data = result_hash[t2].data
         /\ result_hash[t1].seedhash # result_hash[t2].seedhash)
        => result_hash[t1].hash # result_hash[t2].hash

\* C5: whenever a seed hash is published, the cache and the dataset exist
\* (as the claim has it, built from that seed hash)
C5_PublishedSeedHasCacheAndDataset ==
    main_seedhash_set = 1 => (main_cache # NULL /\ main_dataset # NULL)

\* the seed hash published, the flag, the cache and the dataset
Published == <<main_seedhash, main_seedhash_set, main_cache, main_dataset>>

\* C6: while a thread is in kawpow_set_main_seedhash(s) that found s already
\* published, no step changes the published seed hash, the flag, the cache
\* or the dataset
C6_SameSeedIsNoOp ==
    [][(\E t \in Threads : frame[t].op = "set" /\ frame[t].was_main)
         => Published' = Published]_vars

\* a call that found its seed hash published has copied it and set the flag
C6_Witness ==
    \E t \in Threads : pc[t] = "unlock" /\ frame[t].was_main

\* C7: every hash call returns the digest the same call returns when it runs
\* alone, also a call that was running while main_seedhash was partly copied
C7_ConcurrentAsSequential ==
    \A t \in Threads :
        Returned(t) =>
            result_hash[t].hash =
                slow_hash_of[result_hash[t].seedhash, result_hash[t].data]

\* a call returned that ran while main_seedhash was partly copied, while
\* another thread is in a hash call and the seed change is not finished
C7_Witness ==
    \E t1, t2 \in Threads :
        /\ Returned(t1) /\ result_hash[t1].overlapped
        /\ pc[t2] = "hash"
        /\ PartlyCopied

\* the epoch manager is in state Ready(s)
Ready(s) ==
    /\ main_seedhash_set = 1
    /\ main_seedhash = s
    /\ main_cache # NULL
    /\ main_dataset # NULL

\* C8: a hash call entered with a seed hash that is not the ready one
\* returns with the epoch manager in state Ready of that seed hash
C8_StaleSeedRebuilds ==
    [][\A t \in Threads :
          (pc[t] = "hash" /\ pc'[t] = "idle" /\ ~frame[t].was_main)
          => Ready(frame[t].seedhash)']_vars

\* floor(height / PERIOD)
PeriodIndex(height) == height \div KAWPOW_PERIOD

\* C9: blocks of one period are hashed with one program, whatever the seed
\* hash, and the programs of blocks in the periods K and K+1 differ in some
\* instruction slot
C9_ProgramFollowsPeriod ==
    \A i, j \in DOMAIN block_calls :
        LET c1 == block_calls[i]
            c2 == block_calls[j]
        IN  /\ PeriodIndex(c1.height) = PeriodIndex(c2.height) =>
                  c1.program = c2.program
            /\ PeriodIndex(c2.height) = PeriodIndex(c1.height) + 1 =>
                  \E slot \in 1..DrawsPerIteration :
                      c1.program[slot] # c2.program[slot]

\* the header of Header5 with another last byte
Header5b == <<1, 2, 3, 4, 9>>

\* keccak_state after the absorb loop of the seed derivation
absorbed ==
    [data \in Headers \cup {Header5b} |-> Absorb(data, Len(data), 18)]

\* C10: a hash call returns the digest of its header zero-padded or cut to
\* 18 words, and headers that differ in one of their first 72 bytes are
\* absorbed to different states
C10_AbsorbPadsAndTruncates ==
    \A t \in Threads :
        Returned(t) =>
            /\ result_hash[t].hash =
                  slow_hash_of[result_hash[t].seedhash,
                               ZeroPad(result_hash[t].data, ABSORB_BYTES)]
            /\ \A data \in Headers \cup {Header5b} :
                  ZeroPad(data, ABSORB_BYTES) #
                      ZeroPad(result_hash[t].data, ABSORB_BYTES)
                  => absorbed[data] # absorbed[result_hash[t].data]

\* C11: in every thread kawpow_get_miner_thread() returns the argument of
\* the thread's last kawpow_set_miner_thread call (0 if none), whatever the
\* other threads set; and a hash call returns the digest of its arguments
\* whatever the value of the tag
C11_MinerThreadPerWorker ==
    [][\A t \in Threads :
          /\ kawpow_get_miner_thread(t) = last_tag[t]
          /\ kawpow_get_miner_thread(t)' = last_tag'[t]
          /\ (pc[t] = "hash" /\ pc'[t] = "idle") =>
                 result_hash'[t].hash =
                     slow_hash_of[frame[t].seedhash, frame[t].data]]_vars

\* the threads have set different tags, and a thread whose tag is not 0 has
\* returned from a hash call
C11_Witness ==
    \E t, u \in Threads :
        /\ last_tag[t] # 0 /\ last_tag[u] = 0
        /\ miner_thread[t] = last_tag[t]
        /\ Returned(t) /\ pc[u] = "idle"

\* the kawpow_init_dataset calls made for dataset d
CallsOf(d) ==
    {i \in DOMAIN init_dataset_calls : init_dataset_calls[i].dataset = d}

\* the items [startItem, startItem + itemCount) of call i
ItemsOf(i) ==
    LET c == init_dataset_calls[i]
    IN  IntOf(c.startItem)..(IntOf(c.startItem) + IntOf(c.itemCount) - 1)

\* the calls made for dataset d have ranges that partition [0, n), and each
\* ran with the cache initialised from key
FilledByPartition(d, n, key) ==
    /\ CallsOf(d) # {}
    /\ \A i \in CallsOf(d) :
          /\ init_dataset_calls[i].init /\ init_dataset_calls[i].key = key
          /\ ItemsOf(i) # {} /\ ItemsOf(i) \subseteq 0..(n - 1)
    /\ \A i, j \in CallsOf(d) : i # j => ItemsOf(i) \cap ItemsOf(j) = {}
    /\ \A k \in 0..(n - 1) : \E i \in CallsOf(d) : k \in ItemsOf(i)

\* dataset d was filled by the one call kawpow_init_dataset(d, cache, 0, n)
FilledByOneCall(d, n, key) ==
    FilledByPartition(d, n, key) /\ Cardinality(CallsOf(d)) = 1

\* C12: a dataset whose items [0, n) were filled by one call and a dataset
\* whose items [0, n) were filled by calls whose ranges partition [0, n),
\* from the same initialised cache, hold the same bytes in those items
C12_DatasetPartitionIndependent ==
    \A d1, d2 \in Datasets, n \in 1..MaxItemCount, key \in SeedHashes :
        (FilledByOneCall(d1, n, key) /\ FilledByPartition(d2, n, key))
        => \A k \in 0..(n - 1) : dataset[d1].items[k] = dataset[d2].items[k]

\* C19: every word kawpow_init_dataset stores lies in the dataset buffer
\* and every cache word it reads lies in the cache buffer, for every
\* startItem and itemCount
C19_InitDatasetStaysInBuffers ==
    /\ heap = "ok"
    /\ \A i \in DOMAIN init_dataset_calls :
          LET c == init_dataset_calls[i]
          IN  /\ InBuffer(c.offset, c.size)
              /\ \A j \in 0..(MaxItemCount - 1) :
                    4 * cacheIndex(Add64(c.startItem, U64(j))) + 3 < CACHE_SIZE

\* thread t is between the lock and the unlock of kawpow_set_main_seedhash
InCriticalSection(t) == pc[t] \in {"memcpy", "set_flag", "unlock"}

\* thread t holds a read lock
HoldsReadLock(t) ==
    t \in main_cache_lock.readers \/ t \in main_dataset_lock.readers

\* C13: a thread in a hash call holds the read lock; while a seed change is
\* in its critical section no thread is in a hash call and no other seed
\* change is in its critical section; a thread outside a call holds no lock
C13_LockDiscipline ==
    \A t \in Threads :
        /\ pc[t] = "hash" => HoldsReadLock(t)
        /\ InCriticalSection(t) =>
              /\ main_cache_lock.writer = t
              /\ \A u \in Threads \ {t} :
                    pc[u] # "hash" /\ ~InCriticalSection(u)
        /\ pc[t] = "idle" =>
              main_cache_lock.writer # t /\ ~HoldsReadLock(t)

\* the number of leading zero bits of a 32-bit word: 32 for the word 0
Clz(a) == IF a = ZERO32 THEN 32 ELSE clz32(a)

\* a rotated left and right by n bits, 0 <= n <= 31
RotL(a, n) == IF n = 0 THEN a ELSE Or32(Shl32(a, n), Shr32(a, 32 - n))
RotR(a, n) == IF n = 0 THEN a ELSE Or32(Shr32(a, n), Shl32(a, 32 - n))

\* C14: kawpow_math(a, b, r) is, by r mod 11 = 0 .. 10: a + b, a * b, the
\* high word of a * b, min(a, b), a rotated left by b mod 32, a rotated right
\* by b mod 32, a AND b, a OR b, a XOR b, clz(a) + clz(b), popcount(a) +
\* popcount(b); the result is a 32-bit value and a rotate by 0 returns a
C14_MathOperations ==
    op_call.op = "math" =>
        LET a == op_call.a
            b == op_call.b
            c == Mod32(op_call.r, 11)
            ret == op_call.ret
        IN  /\ IsU32(ret)
            /\ c = 0 => ret = Add32(a, b)
            /\ c = 1 => ret = Mul32(a, b)
            /\ c = 2 => ret = MulHi32(a, b)
            /\ c = 3 => ret = (IF Lt32(b, a) THEN b ELSE a)
            /\ c = 4 => ret = RotL(a, b[2] % 32)
            /\ c = 5 => ret = RotR(a, b[2] % 32)
            /\ (c \in {4, 5} /\ b[2] % 32 = 0) => ret = a
            /\ c = 6 => ret = And32(a, b)
            /\ c = 7 => ret = Or32(a, b)
            /\ c = 8 => ret = Xor32(a, b)
            /\ c = 9 => ret = U32(Clz(a) + Clz(b))
            /\ c = 10 => ret = U32(popcount32(a) + popcount32(b))

\* C15: kawpow_merge(a, b, r) is, by r mod 4 = 0 .. 3: a * 33 + b,
\* (a XOR b) * 33, rotl(a, n) XOR b, rotr(a, n) XOR b with n =
\* ((r >> 16) mod 31) + 1, which is in 1 .. 31; the arithmetic wraps modulo
\* 2^32 and the result is a 32-bit value for every input
C15_MergeOperations ==
    op_call.op = "merge" =>
        LET a == op_call.a
            b == op_call.b
            c == op_call.r[2] % 4
            n == (op_call.r[1] % 31) + 1
            ret == op_call.ret
        IN  /\ IsU32(ret)
            /\ n \in 1..31
            /\ c = 0 => ret = Add32(Mul32(a, U32(33)), b)
            /\ c = 1 => ret = Mul32(Xor32(a, b), U32(33))
            /\ c = 2 => ret = Xor32(RotL(a, n), b)
            /\ c = 3 => ret = Xor32(RotR(a, n), b)

\* a merge whose a * 33 + b wrapped, and one that rotates by 31
C15_Witness ==
    /\ op_call.op = "merge"
    /\ \/ /\ op_call.r[2] % 4 = 0
          /\ op_call.a = W32(B16 - 1, B16 - 1)
          /\ Lt32(op_call.ret, op_call.a)
       \/ /\ op_call.r[2] % 4 = 2
          /\ op_call.r[1] = 30
          /\ op_call.a = U32(1)
          /\ op_call.ret = Xor32(W32(B16 \div 2, 0), op_call.b)

(***************************************************************************)
(* The structure of the main loop                                          *)
(***************************************************************************)
\* an outer iteration has been taken by the step
StepTaken ==
    /\ hash_loop.at = "loop"
    /\ hash_loop'.at = "loop"
    /\ hash_loop'.loop = hash_loop.loop + 1

\* the sub-step indices of the operations of one kind, in execution order
IndicesOf(ops, kind) ==
    LET sel == SelectSeq(ops, LAMBDA o : o.kind = kind)
    IN  [k \in 1..Len(sel) |-> sel[k].i]

UpTo(n) == [k \in 1..n |-> k - 1]

\* the place of an operation in the order the claim states: sub-step by
\* sub-step, math before cache, the DAG merges after the last sub-step
Rank(o) ==
    IF o.kind = "dag" THEN 2 * max_ops + o.i
    ELSE 2 * o.i + (IF o.kind = "math" THEN 0 ELSE 1)

\* the operation applied to every lane
ApplyOp(mix, dag_data, o) ==
    For(LAMBDA m, l :
          IF o.kind = "math" THEN MathLane(m, l, o.src1, o.src2, o.dst, o.sel1, o.sel2)
          ELSE IF o.kind = "cache" THEN CacheLane(m, l, o.src1, o.dst, o.sel1)
          ELSE DagLane(m, l, dag_data, o.i, o.dst, o.sel2),
        mix, 0, KAWPOW_LANES)

ApplyOps(mix, dag_data, ops) ==
    For(LAMBDA m, k : ApplyOp(m, dag_data, ops[k + 1]), mix, 0, Len(ops))

\* C16: the loop runs KAWPOW_CNT_DAG = 64 outer iterations and the call
\* returns after the 64th.  An outer iteration runs max_ops = 18 sub-steps:
\* a math operation in sub-step i iff i < KAWPOW_CNT_MATH, a cache operation
\* iff i < KAWPOW_CNT_CACHE, math before cache; then KAWPOW_DAG_LOADS = 4
\* merges of DAG words, the first into register 0, each later one into a
\* register taken from a draw of prog_rnd (an iteration makes
\* DrawsPerIteration draws); every register index is in 0 .. KAWPOW_REGS-1.
\* These operations, applied in this order, give the mix the iteration leaves.
C16_LoopStructure ==
    [][/\ hash_loop'.loop <= KAWPOW_CNT_DAG
       /\ (hash_loop'.at = "done" /\ hash_loop.at = "loop") =>
             /\ hash_loop.loop = KAWPOW_CNT_DAG
             /\ hash_loop'.result_hash = slow_hash_of[SeedA, hash_loop.data]
       /\ StepTaken =>
             LET ops == hash_loop'.ops
             IN  /\ max_ops = 18
                 /\ IndicesOf(ops, "math") = UpTo(KAWPOW_CNT_MATH)
                 /\ IndicesOf(ops, "cache") = UpTo(KAWPOW_CNT_CACHE)
                 /\ IndicesOf(ops, "dag") = UpTo(KAWPOW_DAG_LOADS)
                 /\ Len(ops) = KAWPOW_CNT_MATH + KAWPOW_CNT_CACHE + KAWPOW_DAG_LOADS
                 /\ \A j \in 1..Len(ops), k \in 1..Len(ops) :
                       j < k => Rank(ops[j]) < Rank(ops[k])
                 /\ \A k \in 1..Len(ops) :
                       /\ ops[k].src1 \in 0..(KAWPOW_REGS - 1)
                       /\ ops[k].src2 \in 0..(KAWPOW_REGS - 1)
                       /\ ops[k].dst \in 0..(KAWPOW_REGS - 1)
                       /\ (ops[k].kind = "dag" /\ ops[k].i = 0) => ops[k].dst = 0
                 /\ hash_loop'.s.prog_rnd
                       = Draws(hash_loop.s.prog_rnd, DrawsPerIteration).st
                 /\ hash_loop'.s.mix
                       = ApplyOps(hash_loop.s.mix,
                                  DagData(hash_loop.s.mix, hash_loop.loop), ops)]_vars

\* the 64th outer iteration has run: its operations are those of a full
\* iteration, with a later DAG merge into a register other than 0
C16_Witness ==
    /\ hash_loop.at = "loop"
    /\ hash_loop.loop = KAWPOW_CNT_DAG
    /\ Len(hash_loop.ops) = KAWPOW_CNT_MATH + KAWPOW_CNT_CACHE + KAWPOW_DAG_LOADS
    /\ \E k \in 1..Len(hash_loop.ops) :
          hash_loop.ops[k].kind = "dag" /\ hash_loop.ops[k].dst # 0

\* the instruction an operation is: its kind, its math selector, its merge
\* selector, its source registers and its destination register
Instr(o) ==
    [kind |-> o.kind,
     math |-> IF o.kind = "math" THEN Mod32(o.sel1, 11) ELSE 0,
     merge |-> Mod32(o.sel2, 4),
     src1 |-> o.src1, src2 |-> o.src2, dst |-> o.dst]

Instrs(ops) == [k \in 1..Len(ops) |-> Instr(ops[k])]

\* C17: the Program is one fixed sequence of instructions for the whole call:
\* every outer iteration executes the sequence of (math selector, merge
\* selector, source registers, destination register) tuples that the
\* iteration before it executed, on every lane.
C17_ProgramFixedForCall ==
    [][(StepTaken /\ hash_loop.loop >= 1) =>
          Instrs(hash_loop'.ops) = Instrs(hash_loop.ops)]_vars

(***************************************************************************)
(* Lane isolation                                                          *)
(***************************************************************************)
\* mix with the registers of every lane but lane l set to zero
OnlyLane(mix, l) ==
    [l1 \in 1..Len(mix) |->
       IF l1 = l + 1 THEN mix[l1] ELSE [r \in 1..KAWPOW_REGS |-> ZERO32]]

\* accumulator k of the fold: the digests of the lanes l with l mod 8 = k,
\* folded in increasing lane order
FoldOfLanes(digest_lane, k) ==
    For(LAMBDA acc, j : fnv1a(acc, digest_lane[8 * j + k + 1]),
        FNV_OFFSET_BASIS, 0, KAWPOW_LANES \div 8)

\* C18: lane isolation.  The registers of lane l start as a function of the
\* internal seed and l; an outer iteration leaves in lane l what it leaves
\* there when the registers of every other lane are replaced by zeros, so no
\* operation of lane l reads a register of another lane and no operation of
\* another lane writes one of lane l; digest_lane[l] is computed from the
\* registers of lane l; the lanes meet only in the final fold, lane l into
\* accumulator l mod 8 in increasing lane order.
C18_LaneIsolation ==
    [][/\ (hash_loop'.at = "loop" /\ hash_loop'.loop = 0) =>
             \A l \in Lanes :
                hash_loop'.s.mix[l + 1] = kawpow_fill_mix(hash_loop'.seed, l)
       /\ StepTaken =>
             \A l \in Lanes :
                Iteration([hash_loop.s EXCEPT !.mix = OnlyLane(@, l)],
                          hash_loop.loop).mix[l + 1]
                   = hash_loop'.s.mix[l + 1]
       /\ (hash_loop'.at = "done" /\ hash_loop.at = "loop") =>
             /\ \A l \in Lanes :
                   hash_loop'.digest_lane[l + 1] = DigestLane(hash_loop.s.mix[l + 1])
             /\ \A k \in 0..7 :
                   hash_loop'.final_digest[k + 1]
                      = FoldOfLanes(hash_loop'.digest_lane, k)]_vars

\* a call has returned; its lanes ended with different digests
C18_Witness ==
    /\ hash_loop.at = "done"
    /\ Len(hash_loop.digest_lane) = KAWPOW_LANES
    /\ \A l \in Lanes, m \in Lanes :
          l # m => hash_loop.digest_lane[l + 1] # hash_loop.digest_lane[m + 1]

\* C20: kawpow_seedheights brackets the height: every call with a 64-bit
\* height h stores seed_height <= h < next_height, with next_height -
\* seed_height = KAWPOW_EPOCH_LENGTH and both values multiples of
\* KAWPOW_EPOCH_LENGTH, the heights of the last epoch below 2^64 included
C20_SeedHeightsBracket ==
    \A i \in DOMAIN seedheights_calls :
        LET c == seedheights_calls[i]
        IN  /\ Le64(c.seed_height, c.height)
            /\ Lt64(c.height, c.next_height)
            /\ Sub64(c.next_height, c.seed_height) = E64
            /\ DivMod64(c.seed_height, KAWPOW_EPOCH_LENGTH).rem = 0
            /\ DivMod64(c.next_height, KAWPOW_EPOCH_LENGTH).rem = 0

(***************************************************************************)
(* The cache kawpow_init_cache leaves                                      *)
(***************************************************************************)
\* the first CacheWindow words of an initialised cache
CacheWords(c) == cache_words(c.key, CacheWindow)

\* C21: the cache kawpow_init_cache produces distinguishes keys: when an
\* initialised cache is initialised again, with a key that differs in any
\* byte (bytes 0 .. 3 included) the new contents differ from the old, and
\* with the same key they are byte-identical.
C21_CacheDistinguishesKeys ==
    [][(cache.init /\ cache'.init) =>
          /\ cache'.key # cache.key => CacheWords(cache') # CacheWords(cache)
          /\ cache'.key = cache.key => CacheWords(cache') = CacheWords(cache)]_vars

=============================================================================
